---- MODULE Spec2Model ----
(***************************************************************************)
(* vlotto_tui.py: one run of main() from the quantity prompt (line 622) to *)
(* the result report (line 774).  The remote node and the user are the     *)
(* environment: every answer of the node and every keyboard answer is an   *)
(* input drawn from a small set.  Amounts are integers in units of 1e-8    *)
(* (the 8 decimals the code rounds to).  Transaction ids are hexadecimal,  *)
(* so no transaction id contains the text "rejected".                     *)
(***************************************************************************)
EXTENDS Integers, Sequences, FiniteSets, TLC

(* ------------------------------ bounds -------------------------------- *)
MaxQty == 2
MaxBal == 2
MaxPool == 2
MaxConverters == 2

(* ------------------------- program constants -------------------------- *)
COIN == 100000000
ticket_price == COIN
buffer_percent_den == 100
dry_run == FALSE
min_confirmations == 1
NoTx == <<>>
TxidLen == 64

(* --------------------------- text helpers ----------------------------- *)
(* Error messages are sequences of characters.                            *)
UpperLetters ==
  <<"A", "B", "C", "D", "E", "F", "G", "H", "I", "J", "K", "L", "M",
    "N", "O", "P", "Q", "R", "S", "T", "U", "V", "W", "X", "Y", "Z">>

LowerLetters ==
  <<"a", "b", "c", "d", "e", "f", "g", "h", "i", "j", "k", "l", "m",
    "n", "o", "p", "q", "r", "s", "t", "u", "v", "w", "x", "y", "z">>

LowerChar(c) ==
  IF \E i \in 1..Len(UpperLetters) : UpperLetters[i] = c
  THEN LowerLetters[CHOOSE i \in 1..Len(UpperLetters) : UpperLetters[i] = c]
  ELSE c

Lower(s) == [i \in 1..Len(s) |-> LowerChar(s[i])]

Contains(s, sub) ==
  \E i \in 1..(Len(s) - Len(sub) + 1) : SubSeq(s, i, i + Len(sub) - 1) = sub

RejectedWord == <<"r", "e", "j", "e", "c", "t", "e", "d">>

IsRejectedAlways(err_msg) == TRUE

IsRejected(err_msg) == Contains(Lower(err_msg), RejectedWord)

(* messages the node (or the transport) can answer a takeoffer with *)
MsgTxRejected == <<"t", "x", " ", "r", "e", "j", "e", "c", "t", "e", "d">>
MsgRejectedCaps == <<"R", "E", "J", "E", "C", "T", "E", "D">>
MsgExpired == <<"e", "x", "p", "i", "r", "e", "d">>
MsgConnection == <<"R", "P", "C", " ", "e", "r", "r">>
TakeofferErrors == {MsgTxRejected, MsgRejectedCaps, MsgExpired, MsgConnection}

(* messages the program raises itself *)
MsgMissingName == <<"n", "o", " ", "n", "a", "m", "e">>
MsgMissingIdentity == <<"n", "o", " ", "i", "d">>
MsgOrphaned == <<"o", "r", "p", "h", "a", "n", "e", "d">>

(* ------------------------------ offers -------------------------------- *)
(* An offer as getoffers lists it: offer.txid ("" when missing),          *)
(* offer.offer.name as its rank in string order (0: missing, sorts as      *)
(* ""), and whether identityid is present.                                 *)
OfferUniverse ==
  { [txid |-> "o1", name |-> 1, identityid |-> TRUE],
    [txid |-> "o2", name |-> 2, identityid |-> TRUE],
    [txid |-> "",   name |-> 0, identityid |-> TRUE] }

OfferIds == {o.txid : o \in OfferUniverse} \ {""}

NoOffer == [txid |-> "", name |-> 0, identityid |-> FALSE]

IsInjective(s) == \A i, j \in DOMAIN s : s[i] = s[j] => i = j

(* the lists a refresh can return, in arrival order *)
Pools ==
  UNION { {s \in [1..k -> OfferUniverse] : IsInjective(s)} : k \in 0..MaxPool }

extract_offers_list(getoffers_result) == getoffers_result

SortKeyIgnoresName(o) == 0

(* line 706: key=lambda o: o.get("name") or "" *)
SortKey(o) == o.name

(* list.sort(key=...) is stable: an element goes after the smaller keys and *)
(* after the equal keys that arrived before it                              *)
SortedPosition(s, i) ==
  Cardinality({j \in 1..Len(s) :
                 \/ SortKey(s[j]) < SortKey(s[i])
                 \/ SortKey(s[j]) = SortKey(s[i]) /\ j <= i})

SortByName(s) ==
  [r \in 1..Len(s) |-> s[CHOOSE i \in 1..Len(s) : SortedPosition(s, i) = r]]

SelectableAnyTxid(o, att) == o.txid \notin att

(* line 712: txid and txid not in attempted *)
Selectable(o, att) == o.txid # "" /\ o.txid \notin att

(* the for loop of lines 710-714: the first selectable offer, or none *)
SelectNext(sorted, att) ==
  IF \E i \in 1..Len(sorted) : Selectable(sorted[i], att)
  THEN sorted[CHOOSE i \in 1..Len(sorted) :
                /\ Selectable(sorted[i], att)
                /\ \A j \in 1..(i - 1) : ~Selectable(sorted[j], att)]
  ELSE NoOffer

(* the transaction id the node gives the purchase of an offer *)
TxOf(id) == <<"a", id>>

(* what a successful takeoffer can return *)
TakeofferResults(id) ==
  { [type |-> "str", len |-> TxidLen, txid |-> TxOf(id)],
    [type |-> "dict", len |-> 1, txid |-> TxOf(id)],
    [type |-> "dict", len |-> 0, txid |-> NoTx] }

(* lines 728-732 *)
ExtractTxId(result) ==
  IF result.type = "str" /\ result.len >= TxidLen THEN result.txid
  ELSE IF result.type = "dict" /\ result.len > 0 THEN result.txid
  ELSE NoTx

(* ---------------------------- converters ------------------------------ *)
(* A quoted source amount as the node sends it: a number, a numeric       *)
(* string, the string "nan", a non-numeric string, or another JSON value.  *)
Num(n) == [kind |-> "num", v |-> n]
StrNum(n) == [kind |-> "str", v |-> n]
NanStr == [kind |-> "nan", v |-> 0]
BadStr == [kind |-> "badstr", v |-> 0]
OtherVal == [kind |-> "other", v |-> 0]

Vlotto == <<"v", "l", "o", "t", "t", "o">>
VlottoCaps == <<"V", "L", "O", "T", "T", "O">>
Bridge == <<"B", "r", "i", "d", "g", "e">>
Kaiju == <<"K", "a", "i", "j", "u">>
NoVia == <<>>

ConverterUniverse ==
  { [fullyqualifiedname |-> VlottoCaps, sourceamounts |-> <<StrNum(2 * COIN)>>],
    [fullyqualifiedname |-> Bridge, sourceamounts |-> <<Num(2 * COIN)>>],
    [fullyqualifiedname |-> Kaiju, sourceamounts |-> <<Num(4 * COIN), Num(COIN)>>],
    [fullyqualifiedname |-> Kaiju, sourceamounts |-> <<OtherVal, Num(0), NanStr>>],
    [fullyqualifiedname |-> Bridge, sourceamounts |-> <<BadStr>>],
    [fullyqualifiedname |-> NoVia, sourceamounts |-> <<Num(COIN)>>],
    [fullyqualifiedname |-> Bridge, sourceamounts |-> <<>>] }

ConverterLists == UNION { [1..k -> ConverterUniverse] : k \in 0..MaxConverters }

(* line 251: float(v) of a non-numeric string raises ValueError *)
RaisesValueError(c) ==
  /\ c.fullyqualifiedname # NoVia
  /\ \E i \in 1..Len(c.sourceamounts) : c.sourceamounts[i].kind = "badstr"

(* lines 251-252: the positive, non-NaN numeric values, in dict order *)
Vals(c) ==
  SelectSeq(c.sourceamounts, LAMBDA x : x.kind \in {"num", "str"} /\ x.v > 0)

(* lines 249-254 *)
Usable(c) ==
  /\ c.fullyqualifiedname # NoVia
  /\ c.sourceamounts # <<>>
  /\ Vals(c) # <<>>

Required(c) == Vals(c)[1].v

ReplacesBestOnTie(required, best_required) ==
  best_required = 0 \/ required <= best_required

(* line 256: best_required is None or required < best_required *)
ReplacesBest(required, best_required) ==
  best_required = 0 \/ required < best_required

(* lines 243-258: [required, via] of the best candidate among res[1..n],  *)
(* required = 0 when there is none                                         *)
RECURSIVE BestOf(_, _)
BestOf(res, n) ==
  IF n = 0 THEN [required |-> 0, via |-> NoVia]
  ELSE LET best == BestOf(res, n - 1)
           c == res[n]
       IN IF Usable(c) /\ ReplacesBest(Required(c), best.required)
          THEN [required |-> Required(c), via |-> c.fullyqualifiedname]
          ELSE best

ConvertRequestCaseSensitive(amount_in, v, to_currency) ==
  [amount |-> amount_in,
   has_via |-> (v # NoVia /\ v # to_currency),
   via |-> IF v # NoVia /\ v # to_currency THEN v ELSE NoVia]

(* lines 266-276: the object sent to sendcurrency *)
ConvertRequest(amount_in, v, to_currency) ==
  [amount |-> amount_in,
   has_via |-> (v # NoVia /\ Lower(v) # Lower(to_currency)),
   via |-> IF v # NoVia /\ Lower(v) # Lower(to_currency) THEN v ELSE NoVia]

NoRequest == [amount |-> 0, has_via |-> FALSE, via |-> NoVia]

(* what sendcurrency can return, by its text after lines 279-283 *)
OpidText == <<"o", "p", "i", "d", "-", "7">>
SwapTx == <<"5", "c">>
NoneText == <<"N", "o", "n", "e">>
SendcurrencyResults == {OpidText, SwapTx, NoneText}

OpidPrefix == <<"o", "p", "i", "d", "-">>

StartsWith(s, prefix) ==
  Len(s) >= Len(prefix) /\ SubSeq(s, 1, Len(prefix)) = prefix

(* ------------------------------ amounts ------------------------------- *)
Max(a, b) == IF a > b THEN a ELSE b

(* line 633 *)
Deficit(need, bal) == Max(0, need - bal)

WithBufferTruncates(d) ==
  IF d > 0 THEN d + d \div buffer_percent_den ELSE 0

(* line 639 with buffer_percent = 0.01, and the rounding of line 236 *)
WithBuffer(d) ==
  IF d > 0 THEN d + (2 * d + buffer_percent_den) \div (2 * buffer_percent_den)
  ELSE 0

NeedsSwapAlways(dwb) == dwb >= 0

(* lines 646 and 677: if deficit_with_buffer > 0 *)
NeedsSwap(dwb) == dwb > 0

(* the balances the node can report: whole amounts, and one that is 75     *)
(* units (0.00000075) short of a whole one                                  *)
BalanceValues == {k * COIN : k \in 0..MaxBal} \cup {COIN - 75}

BalanceReachedAny(bal, min_balance) == bal >= 0

(* line 336 *)
BalanceReached(bal, min_balance) == bal >= min_balance

(* ------------------------- the node's answers ------------------------ *)
(* RpcClient.call, 67-94: a call returns the result ("ok"), or raises      *)
(* RuntimeError for a transport failure (connection error, timeout,        *)
(* non-JSON response: "transport") or for an error envelope of the node    *)
(* ("error").                                                              *)
Faults == {"transport", "error"}

Call(method, outcome) == [method |-> method, outcome |-> outcome]

NoCall == Call("none", "ok")

BalanceReplies ==
  {[outcome |-> "ok", bal |-> b] : b \in BalanceValues}
    \cup {[outcome |-> f, bal |-> 0] : f \in Faults}

(* get_currency_balance, 195-209: a failed or unparsable read is 0.0 *)
get_currency_balance(reply) == IF reply.outcome = "ok" THEN reply.bal ELSE 0

(* getcurrencyconverters: a list of candidates (anything else counts as    *)
(* the empty list, line 240)                                               *)
ConverterReplies ==
  {[outcome |-> "ok", res |-> r] : r \in ConverterLists}
    \cup {[outcome |-> f, res |-> <<>>] : f \in Faults}

SendcurrencyReplies ==
  {[outcome |-> "ok", text |-> t] : t \in SendcurrencyResults}
    \cup {[outcome |-> f, text |-> NoneText] : f \in Faults}

(* z_getoperationstatus: the status of the first entry and its result      *)
(* txid; "empty" is the empty list                                         *)
OperationStatuses ==
  { [status |-> "success", txid |-> SwapTx],
    [status |-> "success", txid |-> NoTx],
    [status |-> "failed", txid |-> NoTx],
    [status |-> "executing", txid |-> NoTx],
    [status |-> "queued", txid |-> NoTx],
    [status |-> "empty", txid |-> NoTx] }

OpidReplies ==
  {[outcome |-> "ok", status |-> s.status, txid |-> s.txid] : s \in OperationStatuses}
    \cup {[outcome |-> f, status |-> "none", txid |-> NoTx] : f \in Faults}

OpidFailedNever(s) == FALSE

(* line 298 *)
OpidFailed(s) == s = "failed"

(* getoffers: a list in arrival order (any other shape counts as the empty *)
(* list, 133-140)                                                          *)
GetoffersReplies ==
  {[outcome |-> "ok", offers |-> p] : p \in Pools}
    \cup {[outcome |-> f, offers |-> <<>>] : f \in Faults}

NoResult == [type |-> "none", len |-> 0, txid |-> NoTx]

(* takeoffer: a result, or an exception with its message; MsgConnection is *)
(* the message of a transport failure                                      *)
TakeofferReplies(id) ==
  {[outcome |-> IF m = MsgConnection THEN "transport" ELSE "error",
    error |-> m, result |-> NoResult] : m \in TakeofferErrors}
    \cup {[outcome |-> "ok", error |-> <<>>, result |-> r] : r \in TakeofferResults(id)}

ConfirmationValues == {-2, -1, 0, 1, 2}

(* gettransaction: the confirmations field of the transaction; the node    *)
(* knows no transaction with an empty id and answers with an error         *)
NodeConfirmations(txid) ==
  IF txid = NoTx
  THEN {[outcome |-> "error", confirmations |-> 0]}
  ELSE {[outcome |-> "ok", confirmations |-> c] : c \in ConfirmationValues}
         \cup {[outcome |-> f, confirmations |-> 0] : f \in Faults}

get_tx_confirmations_orphans(reply) ==
  IF reply.outcome = "ok" THEN reply.confirmations ELSE -1

(* get_tx_confirmations, 306-314: the count, 0 when the call fails *)
get_tx_confirmations(reply) ==
  IF reply.outcome = "ok" THEN reply.confirmations ELSE 0

ConfirmedStrict(c, min) == c > min

(* line 322 *)
Confirmed(c, min) == c >= min

(* ------------------------------- state -------------------------------- *)
VARIABLES
  pc,                  \* where main() is
  qty, needed, vlotto_balance, deficit, deficit_with_buffer,
  required_vrsc, via, swap_request, swap_opid, swap_txid,
  offers, found_offer, attempted, purchased, errors, bought, last_txid,
  wait_txid,           \* the txid argument of the running wait_for_tx_confirmed
  outcome,             \* the result line printed at 769-774
  exit_error,          \* why the run ended early
  rpc_calls,           \* the remote methods called so far
  observed,            \* the offer ids seen in the refreshes so far
  initial_balance,     \* the balance read at line 632
  balance_ok,          \* a balance read has returned at least needed
  prior_tx,            \* the tx_id extracted for the latest purchase
  prior_confirmed,     \* a poll of prior_tx has returned >= 1 confirmation
  swap_confirmed,      \* a poll of the conversion tx has returned >= 1
  orphan_seen,         \* a poll of a purchase tx has returned -1
  query_amount,        \* query["amount"] of the getcurrencyconverters call (236)
  res,                 \* the candidates get_best_exact_out_converter is reading
  status,              \* the status the latest z_getoperationstatus listed (290)
  confs,               \* the value of the latest get_tx_confirmations (321)
  last_rpc,            \* the latest remote call and how it ended
  takeoffer_calls      \* takeoffer calls counted by the scenario specification

liquidityVars ==
  <<qty, needed, vlotto_balance, deficit, deficit_with_buffer,
    required_vrsc, via, swap_request, swap_opid, swap_txid>>

loopVars ==
  <<offers, found_offer, attempted, purchased, errors, bought, last_txid>>

ghostVars ==
  <<observed, initial_balance, balance_ok, prior_tx, prior_confirmed, swap_confirmed, orphan_seen>>

callVars == <<query_amount, res, status, confs, last_rpc>>

vars ==
  <<pc, liquidityVars, loopVars, wait_txid, outcome, exit_error, rpc_calls,
    ghostVars, callVars, takeoffer_calls>>

Init ==
  /\ pc = "prompt_qty"
  /\ qty = 0 /\ needed = 0 /\ vlotto_balance = 0
  /\ deficit = 0 /\ deficit_with_buffer = 0
  /\ required_vrsc = 0 /\ via = NoVia
  /\ swap_request = NoRequest /\ swap_opid = NoTx /\ swap_txid = NoTx
  /\ offers = <<>> /\ found_offer = NoOffer /\ attempted = {}
  /\ purchased = <<>> /\ errors = <<>> /\ bought = 0 /\ last_txid = NoTx
  /\ wait_txid = NoTx /\ outcome = "none" /\ exit_error = "none"
  /\ rpc_calls = {}
  /\ observed = {} /\ initial_balance = 0 /\ balance_ok = FALSE
  /\ prior_tx = NoTx /\ prior_confirmed = FALSE
  /\ swap_confirmed = FALSE /\ orphan_seen = FALSE
  /\ query_amount = 0 /\ res = <<>> /\ status = "none" /\ confs = 0
  /\ last_rpc = NoCall /\ takeoffer_calls = 0

(* an exception that leaves main(): SystemExit or an uncaught RuntimeError *)
Abort(next_pc, why) ==
  /\ pc' = next_pc
  /\ exit_error' = why

(* lines 622-628 *)
QtyInputs ==
  {[int |-> FALSE, n |-> 0]} \cup {[int |-> TRUE, n |-> k] : k \in 0..MaxQty}

PromptQtyFrom(inputs) ==
  /\ pc = "prompt_qty"
  /\ \E qty_raw \in inputs :
       IF qty_raw.int /\ qty_raw.n > 0
       THEN /\ qty' = qty_raw.n
            /\ pc' = "read_balance"
            /\ exit_error' = exit_error
       ELSE /\ qty' = qty
            /\ Abort("exited", "quantity must be a positive integer")
  /\ UNCHANGED <<needed, vlotto_balance, deficit, deficit_with_buffer,
                 required_vrsc, via, swap_request, swap_opid, swap_txid>>
  /\ UNCHANGED <<loopVars, wait_txid, outcome, rpc_calls, ghostVars, callVars,
                 takeoffer_calls>>

PromptQty == PromptQtyFrom(QtyInputs)

(* lines 630-639 *)
ReadBalanceFrom(replies) ==
  /\ pc = "read_balance"
  /\ \E reply \in replies :
       LET bal == get_currency_balance(reply)
       IN /\ needed' = qty * ticket_price
          /\ vlotto_balance' = bal
          /\ deficit' = Deficit(qty * ticket_price, bal)
          /\ deficit_with_buffer' = WithBuffer(Deficit(qty * ticket_price, bal))
          /\ initial_balance' = bal
          /\ balance_ok' = (bal >= qty * ticket_price)
          /\ pc' = IF NeedsSwap(WithBuffer(Deficit(qty * ticket_price, bal)))
                   THEN "find_route" ELSE "confirm"
          /\ last_rpc' = Call("getcurrencybalance", reply.outcome)
  /\ rpc_calls' = rpc_calls \cup {"getcurrencybalance"}
  /\ UNCHANGED <<qty, required_vrsc, via, swap_request, swap_opid, swap_txid>>
  /\ UNCHANGED <<loopVars, wait_txid, outcome, exit_error, takeoffer_calls>>
  /\ UNCHANGED <<observed, prior_tx, prior_confirmed, swap_confirmed, orphan_seen>>
  /\ UNCHANGED <<query_amount, res, status, confs>>

ReadBalance == ReadBalanceFrom(BalanceReplies)

(* lines 646-647 and get_best_exact_out_converter up to line 241: the      *)
(* query and the node's list                                               *)
FindRoute ==
  /\ pc = "find_route"
  /\ rpc_calls' = rpc_calls \cup {"getcurrencyconverters"}
  /\ query_amount' = deficit_with_buffer
  /\ \E reply \in ConverterReplies :
       /\ last_rpc' = Call("getcurrencyconverters", reply.outcome)
       /\ IF reply.outcome # "ok"
          THEN Abort("aborted", "rpc error") /\ res' = res
          ELSE IF reply.res = <<>>
          THEN Abort("aborted", "no converters found") /\ res' = res
          ELSE /\ res' = reply.res
               /\ pc' = "pick_route"
               /\ exit_error' = exit_error
  /\ UNCHANGED <<liquidityVars, loopVars, wait_txid, outcome, ghostVars,
                 status, confs, takeoffer_calls>>

NoRouteContinues == "confirm"

(* lines 260-261: the RuntimeError that nothing catches *)
NoRoute == "aborted"

(* get_best_exact_out_converter, lines 243-263 *)
PickRoute ==
  /\ pc = "pick_route"
  /\ IF \E i \in 1..Len(res) : RaisesValueError(res[i])
     THEN Abort("aborted", "ValueError") /\ UNCHANGED <<required_vrsc, via>>
     ELSE IF BestOf(res, Len(res)).required = 0
     THEN /\ Abort(NoRoute, "no usable converter route")
          /\ UNCHANGED <<required_vrsc, via>>
     ELSE /\ required_vrsc' = BestOf(res, Len(res)).required
          /\ via' = BestOf(res, Len(res)).via
          /\ pc' = "confirm"
          /\ exit_error' = exit_error
  /\ res' = <<>>
  /\ UNCHANGED <<qty, needed, vlotto_balance, deficit, deficit_with_buffer,
                 swap_request, swap_opid, swap_txid>>
  /\ UNCHANGED <<loopVars, wait_txid, outcome, rpc_calls, ghostVars,
                 query_amount, status, confs, last_rpc, takeoffer_calls>>

CancelledContinues == "loop"

(* line 674: raise SystemExit *)
Cancelled == "exited"

(* lines 672-677 and 696-700 *)
ConfirmPurchaseFrom(answers) ==
  /\ pc = "confirm"
  /\ \E confirm \in answers :
       IF confirm # "y"
       THEN Abort(Cancelled, "cancelled by user")
       ELSE /\ pc' = IF NeedsSwap(deficit_with_buffer) THEN "send" ELSE "loop"
            /\ exit_error' = exit_error
  /\ UNCHANGED <<liquidityVars, loopVars, wait_txid, outcome, rpc_calls, ghostVars,
                 callVars, takeoffer_calls>>

ConfirmPurchase == ConfirmPurchaseFrom({"y", "n"})

(* lines 680-683 and sendcurrency_convert, 266-283 *)
SendCurrency ==
  /\ pc = "send"
  /\ rpc_calls' = rpc_calls \cup {"sendcurrency"}
  /\ swap_request' = ConvertRequest(required_vrsc, via, Vlotto)
  /\ \E reply \in SendcurrencyReplies :
       /\ last_rpc' = Call("sendcurrency", reply.outcome)
       /\ IF reply.outcome # "ok"
          THEN Abort("aborted", "rpc error") /\ swap_opid' = swap_opid
          ELSE /\ swap_opid' = reply.text
               /\ pc' = IF StartsWith(reply.text, OpidPrefix)
                        THEN "wait_opid" ELSE "wait_balance"
               /\ exit_error' = exit_error
  /\ UNCHANGED <<qty, needed, vlotto_balance, deficit, deficit_with_buffer,
                 required_vrsc, via, swap_txid>>
  /\ UNCHANGED <<loopVars, wait_txid, outcome, ghostVars,
                 query_amount, res, status, confs, takeoffer_calls>>

(* wait_for_opid_success, 286-303, and line 686 *)
WaitForOpid ==
  /\ pc = "wait_opid"
  /\ rpc_calls' = rpc_calls \cup {"z_getoperationstatus"}
  /\ \E reply \in OpidReplies :
       /\ last_rpc' = Call("z_getoperationstatus", reply.outcome)
       /\ IF reply.outcome # "ok"
          THEN /\ Abort("aborted", "rpc error")
               /\ UNCHANGED <<status, swap_txid, wait_txid>>
          ELSE /\ status' = reply.status
               /\ IF reply.status = "success"
                  THEN /\ swap_txid' = reply.txid
                       /\ wait_txid' = reply.txid
                       /\ pc' = "wait_swap_tx"
                       /\ exit_error' = exit_error
                  ELSE IF OpidFailed(reply.status)
                  THEN /\ Abort("aborted", "operation failed")
                       /\ UNCHANGED <<swap_txid, wait_txid>>
                  ELSE UNCHANGED <<pc, exit_error, swap_txid, wait_txid>>
  /\ UNCHANGED <<qty, needed, vlotto_balance, deficit, deficit_with_buffer,
                 required_vrsc, via, swap_request, swap_opid>>
  /\ UNCHANGED <<loopVars, outcome, ghostVars, query_amount, res, confs,
                 takeoffer_calls>>

(* wait_for_balance, 331-340, and line 689 *)
WaitForBalance ==
  /\ pc = "wait_balance"
  /\ rpc_calls' = rpc_calls \cup {"getcurrencybalance"}
  /\ \E reply \in BalanceReplies :
       LET bal == get_currency_balance(reply)
       IN /\ last_rpc' = Call("getcurrencybalance", reply.outcome)
          /\ IF BalanceReached(bal, needed)
             THEN /\ vlotto_balance' = bal
                  /\ balance_ok' = (balance_ok \/ bal >= needed)
                  /\ pc' = "loop"
             ELSE UNCHANGED <<vlotto_balance, balance_ok, pc>>
  /\ UNCHANGED <<qty, needed, deficit, deficit_with_buffer,
                 required_vrsc, via, swap_request, swap_opid, swap_txid>>
  /\ UNCHANGED <<loopVars, wait_txid, outcome, exit_error, takeoffer_calls>>
  /\ UNCHANGED <<observed, initial_balance, prior_tx, prior_confirmed,
                 swap_confirmed, orphan_seen>>
  /\ UNCHANGED <<query_amount, res, status, confs>>

(* --------------------------- purchase loop ---------------------------- *)
AttemptedAfterSelectForgets(att, id) == att

(* line 721 *)
AttemptedAfterSelect(att, id) == att \cup {id}

AttemptedAfterErrorDiscards(att, id) == att \ {id}

(* lines 756-758: a non-rejected error leaves attempted alone *)
AttemptedAfterError(att, id) == att

LoopBreakContinues == "loop"

(* lines 716-718: break *)
LoopBreak == "after_loop"

(* lines 702-721 *)
RefreshAndSelectFrom(replies) ==
  /\ pc = "loop"
  /\ IF bought < qty
     THEN /\ rpc_calls' = rpc_calls \cup {"getoffers"}
          /\ \E reply \in replies :
               /\ last_rpc' = Call("getoffers", reply.outcome)
               /\ IF reply.outcome # "ok"
                  THEN /\ Abort("aborted", "rpc error")
                       /\ UNCHANGED <<offers, found_offer, attempted, observed>>
                  ELSE LET sorted == SortByName(extract_offers_list(reply.offers))
                           found == SelectNext(sorted, attempted)
                       IN /\ offers' = sorted
                          /\ observed' = observed \cup
                               ({sorted[i].txid : i \in 1..Len(sorted)} \ {""})
                          /\ exit_error' = exit_error
                          /\ IF found = NoOffer
                             THEN /\ pc' = LoopBreak
                                  /\ UNCHANGED <<found_offer, attempted>>
                             ELSE /\ found_offer' = found
                                  /\ attempted' = AttemptedAfterSelect(attempted, found.txid)
                                  /\ pc' = "take"
     ELSE /\ pc' = "after_loop"
          /\ UNCHANGED <<offers, found_offer, attempted, observed, rpc_calls,
                         exit_error, last_rpc>>
  /\ UNCHANGED <<liquidityVars, purchased, errors, bought, last_txid, wait_txid, outcome>>
  /\ UNCHANGED <<initial_balance, balance_ok, prior_tx, prior_confirmed,
                 swap_confirmed, orphan_seen>>
  /\ UNCHANGED <<query_amount, res, status, confs, takeoffer_calls>>

RefreshAndSelect == RefreshAndSelectFrom(GetoffersReplies)

(* the except clause, lines 744-758, up to its wait or sleep *)
HandleException(err_msg) ==
  IF IsRejected(err_msg)
  THEN /\ UNCHANGED <<errors, attempted>>
       /\ pc' = IF last_txid # NoTx THEN "wait_prev" ELSE "backoff"
       /\ wait_txid' = IF last_txid # NoTx THEN last_txid ELSE wait_txid
  ELSE /\ errors' = Append(errors, [offer_txid |-> found_offer.txid, error |-> err_msg])
       /\ attempted' = AttemptedAfterError(attempted, found_offer.txid)
       /\ pc' = "loop"
       /\ wait_txid' = wait_txid

LastTxidAlways(last, tx_id, waits) == IF tx_id # NoTx THEN tx_id ELSE last

(* lines 739-742: last_txid is set only when the purchase is not waited    *)
(* for at line 740                                                         *)
LastTxid(last, tx_id, waits) ==
  IF waits THEN last ELSE IF tx_id # NoTx THEN tx_id ELSE last

(* lines 723-742 and take_ticket_offer, 394-441 *)
TakeOfferFrom(replies) ==
  /\ pc = "take"
  /\ IF found_offer.name = 0
     THEN /\ HandleException(MsgMissingName)
          /\ UNCHANGED <<purchased, bought, last_txid, rpc_calls, prior_tx,
                         prior_confirmed, last_rpc>>
     ELSE IF ~found_offer.identityid
     THEN /\ HandleException(MsgMissingIdentity)
          /\ UNCHANGED <<purchased, bought, last_txid, rpc_calls, prior_tx,
                         prior_confirmed, last_rpc>>
     ELSE /\ rpc_calls' = rpc_calls \cup {"takeoffer"}
          /\ \E reply \in replies :
               /\ last_rpc' = Call("takeoffer", reply.outcome)
               /\ IF reply.outcome # "ok"
                  THEN /\ HandleException(reply.error)
                       /\ UNCHANGED <<purchased, bought, last_txid, prior_tx,
                                      prior_confirmed>>
                  ELSE LET r == [offer_txid |-> found_offer.txid,
                                 ticket |-> found_offer.name,
                                 result |-> reply.result]
                           tx_id == ExtractTxId(reply.result)
                           waits == tx_id # NoTx /\ bought + 1 < qty /\ ~dry_run
                       IN /\ purchased' = Append(purchased, r)
                          /\ bought' = bought + 1
                          /\ prior_tx' = tx_id
                          /\ prior_confirmed' = FALSE
                          /\ UNCHANGED <<errors, attempted>>
                          /\ last_txid' = LastTxid(last_txid, tx_id, waits)
                          /\ IF waits
                             THEN /\ wait_txid' = tx_id
                                  /\ pc' = "wait_tx"
                             ELSE /\ pc' = "loop"
                                  /\ wait_txid' = wait_txid
  /\ UNCHANGED <<liquidityVars, offers, found_offer, outcome, exit_error>>
  /\ UNCHANGED <<observed, initial_balance, balance_ok, swap_confirmed, orphan_seen>>
  /\ UNCHANGED <<query_amount, res, status, confs>>

TakeOffer ==
  /\ TakeOfferFrom(TakeofferReplies(found_offer.txid))
  /\ UNCHANGED takeoffer_calls

(* lines 752-755: the fixed sleep, then the offer is unmarked *)
Backoff ==
  /\ pc = "backoff"
  /\ attempted' = attempted \ {found_offer.txid}
  /\ pc' = "loop"
  /\ UNCHANGED <<liquidityVars, offers, found_offer, purchased, errors, bought,
                 last_txid, wait_txid, outcome, exit_error, rpc_calls, ghostVars,
                 callVars, takeoffer_calls>>

WaitSites == {"wait_swap_tx", "wait_tx", "wait_prev", "wait_final"}

PurchaseWaitSites == {"wait_tx", "wait_prev", "wait_final"}

(* wait_for_tx_confirmed, 317-328, with what follows it at each call site: *)
(* line 686 (conversion), 740 (inside the try), 750 (inside the except     *)
(* clause) and 763 (after the loop)                                        *)
WaitForTxConfirmedFrom(replies) ==
  /\ pc \in WaitSites
  /\ rpc_calls' = rpc_calls \cup {"gettransaction"}
  /\ \E reply \in replies :
       LET c == get_tx_confirmations(reply)
       IN /\ last_rpc' = Call("gettransaction", reply.outcome)
          /\ confs' = c
          /\ prior_confirmed' =
               (prior_confirmed \/ (c >= 1 /\ wait_txid = prior_tx /\ pc \in PurchaseWaitSites))
          /\ swap_confirmed' = (swap_confirmed \/ (c >= 1 /\ pc = "wait_swap_tx"))
          /\ orphan_seen' = (orphan_seen \/ (c = -1 /\ pc \in PurchaseWaitSites))
          /\ IF Confirmed(c, min_confirmations)
             THEN /\ pc' = CASE pc = "wait_swap_tx" -> "wait_balance"
                             [] pc = "wait_final" -> "report"
                             [] OTHER -> "loop"
                  /\ attempted' = IF pc = "wait_prev"
                                   THEN attempted \ {found_offer.txid} ELSE attempted
                  /\ UNCHANGED <<errors, wait_txid, exit_error>>
             ELSE IF c = -1
             THEN IF pc = "wait_tx"
                  THEN /\ HandleException(MsgOrphaned)
                       /\ exit_error' = exit_error
                  ELSE /\ Abort("aborted", "orphaned")
                       /\ UNCHANGED <<errors, attempted, wait_txid>>
             ELSE UNCHANGED <<pc, errors, attempted, wait_txid, exit_error>>
  /\ UNCHANGED <<liquidityVars, offers, found_offer, purchased, bought, last_txid, outcome>>
  /\ UNCHANGED <<observed, initial_balance, balance_ok, prior_tx>>
  /\ UNCHANGED <<query_amount, res, status, takeoffer_calls>>

WaitForTxConfirmed == WaitForTxConfirmedFrom(NodeConfirmations(wait_txid))

(* lines 760-763 *)
AfterLoop ==
  /\ pc = "after_loop"
  /\ IF last_txid # NoTx /\ ~dry_run
     THEN pc' = "wait_final" /\ wait_txid' = last_txid
     ELSE pc' = "report" /\ wait_txid' = wait_txid
  /\ UNCHANGED <<liquidityVars, loopVars, outcome, exit_error, rpc_calls, ghostVars,
                 callVars, takeoffer_calls>>

ReportedOutcomePartialFirst(b, q) ==
  IF b > 0 THEN "partial" ELSE IF b = q THEN "success" ELSE "failed"

(* lines 769-774 *)
ReportedOutcome(b, q) ==
  IF b = q THEN "success" ELSE IF b > 0 THEN "partial" ELSE "failed"

Report ==
  /\ pc = "report"
  /\ outcome' = ReportedOutcome(bought, qty)
  /\ pc' = "done"
  /\ UNCHANGED <<liquidityVars, loopVars, wait_txid, exit_error, rpc_calls, ghostVars,
                 callVars, takeoffer_calls>>

Next ==
  \/ PromptQty
  \/ ReadBalance
  \/ FindRoute
  \/ PickRoute
  \/ ConfirmPurchase
  \/ SendCurrency
  \/ WaitForOpid
  \/ WaitForTxConfirmed
  \/ WaitForBalance
  \/ RefreshAndSelect
  \/ TakeOffer
  \/ Backoff
  \/ AfterLoop
  \/ Report

Spec == Init /\ [][Next]_vars

(* a wait that the node can answer is answered: the operation finishes,    *)
(* the confirmation or the funds arrive                                    *)
WaitAnswered ==
  /\ \/ WaitForOpid
     \/ WaitForTxConfirmed
     \/ WaitForBalance
  /\ pc' # pc

(* the program always takes its next step, and every wait is answered *)
FairSpec == Spec /\ WF_vars(Next) /\ WF_vars(WaitAnswered)

(* ------------- scenario: a pool of offers, all purchases succeed ------ *)
ScenarioQty == 3
ScenarioPoolSize == 5

ScenarioIds == <<"s1", "s2", "s3", "s4", "s5", "s6", "s7", "s8">>

(* the offers of the pool: distinct ids, distinct ticket names *)
ScenarioOffers ==
  {[txid |-> ScenarioIds[i], name |-> i, identityid |-> TRUE] : i \in 1..ScenarioPoolSize}

(* every refresh lists the whole pool, in any order *)
ScenarioPools ==
  {p \in [1..ScenarioPoolSize -> ScenarioOffers] : IsInjective(p)}

(* the wallet holds enough vlotto for the tickets *)
ScenarioBalances ==
  {[outcome |-> "ok", bal |-> k * COIN] : k \in ScenarioQty..(ScenarioQty + 1)}

ScenarioTakeOffer ==
  /\ TakeOfferFrom({[outcome |-> "ok", error |-> <<>>, result |-> r] :
                      r \in TakeofferResults(found_offer.txid)})
  /\ takeoffer_calls' =
       takeoffer_calls + (IF found_offer.name # 0 /\ found_offer.identityid THEN 1 ELSE 0)

ScenarioNext ==
  \/ PromptQtyFrom({[int |-> TRUE, n |-> ScenarioQty]})
  \/ ReadBalanceFrom(ScenarioBalances)
  \/ ConfirmPurchaseFrom({"y"})
  \/ RefreshAndSelectFrom({[outcome |-> "ok", offers |-> p] : p \in ScenarioPools})
  \/ ScenarioTakeOffer
  \/ WaitForTxConfirmedFrom({[outcome |-> "ok", confirmations |-> c] : c \in {1, 2}})
  \/ AfterLoop
  \/ Report

(* the runs of the scenario *)
ScenarioSpec == Init /\ [][ScenarioNext]_vars

(* ------------- selection: any pool, every attempt fails --------------- *)
(* offers as a refresh can list them: two with the same ticket name, one   *)
(* without a name, one without txid                                        *)
WideOffers ==
  { [txid |-> "o1", name |-> 1, identityid |-> TRUE],
    [txid |-> "o2", name |-> 2, identityid |-> TRUE],
    [txid |-> "o3", name |-> 2, identityid |-> TRUE],
    [txid |-> "o4", name |-> 0, identityid |-> TRUE],
    [txid |-> "",   name |-> 1, identityid |-> TRUE] }

WidePools ==
  UNION { {p \in [1..k -> WideOffers] : IsInjective(p)} : k \in 0..(MaxPool + 1) }

SelectTakeOffer ==
  /\ TakeOfferFrom({[outcome |-> "error", error |-> MsgExpired, result |-> NoResult]})
  /\ UNCHANGED takeoffer_calls

SelectionNext ==
  \/ PromptQtyFrom({[int |-> TRUE, n |-> 1]})
  \/ ReadBalanceFrom({[outcome |-> "ok", bal |-> COIN]})
  \/ ConfirmPurchaseFrom({"y"})
  \/ RefreshAndSelectFrom({[outcome |-> "ok", offers |-> p] : p \in WidePools})
  \/ SelectTakeOffer
  \/ AfterLoop
  \/ Report

(* a run for one ticket in which every offer tried has expired *)
SelectionSpec == Init /\ [][SelectionNext]_vars

(* ------------------------------ properties ---------------------------- *)
PurchasedIds == {purchased[i].offer_txid : i \in 1..Len(purchased)}

ErroredIds == {errors[i].offer_txid : i \in 1..Len(errors)}

(* the takeoffer call is the next thing the program does *)
AboutToSubmitTakeoffer ==
  pc = "take" /\ found_offer.name # 0 /\ found_offer.identityid

(* C1: whenever a takeoffer is about to be submitted and the previous      *)
(* purchase returned a transaction id, a poll of that transaction has      *)
(* returned at least 1 confirmation.                                       *)
C1_Sequencing ==
  (AboutToSubmitTakeoffer /\ prior_tx # NoTx) => prior_confirmed

(* C2: no offer id appears twice in purchased. *)
C2_NoDuplicatePurchase ==
  \A i, j \in 1..Len(purchased) :
     purchased[i].offer_txid = purchased[j].offer_txid => i = j

C2_Witness ==
  /\ Len(purchased) >= 2
  /\ errors # <<>>
  /\ "takeoffer" \in rpc_calls

(* the while loop has ended by its condition or by its break *)
LoopExited ==
  /\ pc = "after_loop"
  /\ \/ bought = qty
     \/ \A i \in 1..Len(offers) : ~Selectable(offers[i], attempted)

RunAborted == pc = "aborted"

(* C3: every run that enters the purchase loop leaves it, with bought =    *)
(* qty or no un-attempted offer left (or the run aborts on a failed        *)
(* refresh), whatever the takeoffer outcomes are.                          *)
C3_Terminates == (pc = "loop") ~> (LoopExited \/ RunAborted)

(* C3 as amended: the same, in every run in which the node answers         *)
(* "rejected" only finitely often.                                         *)
C3_TerminatesUnlessRejectedForever ==
  (<>[](pc \notin {"backoff", "wait_prev"}))
     => ((pc = "loop") ~> (LoopExited \/ RunAborted))

C3_Witness ==
  /\ LoopExited
  /\ bought < qty
  /\ errors # <<>>
  /\ purchased # <<>>

(* C4: once a poll of a purchase transaction has returned -1 the run is    *)
(* aborted.                                                                *)
C4_OrphanFatal == orphan_seen => pc = "aborted"

(* C5: after a "rejected" answer that follows a purchase whose transaction *)
(* id is known, the program waits for that transaction, it does not take   *)
(* the fixed sleep.                                                        *)
C5_RejectedAwaitsPrior ==
  (pc = "backoff" /\ bought >= 1) => prior_tx = NoTx

(* a takeoffer attempt ends in this step with an error that is not a       *)
(* rejection                                                               *)
OtherErrorStep ==
  /\ pc = "take"
  /\ bought' = bought
  /\ pc' \notin {"backoff", "wait_prev"}

(* C6: an attempt that fails with a non-rejected error does not end the    *)
(* run: the error is appended to errors, the offer stays in attempted and  *)
(* the loop goes on; no later attempt targets an offer recorded in errors. *)
C6_OtherErrorIsolated ==
  /\ [](ErroredIds \subseteq attempted)
  /\ [](pc = "take" => found_offer.txid \notin ErroredIds)
  /\ [][OtherErrorStep =>
          /\ pc' = "loop"
          /\ exit_error' = exit_error
          /\ Len(errors') = Len(errors) + 1
          /\ errors'[Len(errors')].offer_txid = found_offer.txid
          /\ ~IsRejected(errors'[Len(errors')].error)
          /\ found_offer.txid \in attempted']_vars

C6_Witness ==
  /\ pc = "take"
  /\ Len(errors) >= 1
  /\ errors[1].error = MsgConnection
  /\ found_offer.txid # errors[1].offer_txid

(* C7: after a refresh, attempted is a strict subset of the observed ids. *)
C7_StrictSubset ==
  observed # {} => (attempted \subseteq observed /\ attempted # observed)

(* C7 as amended: attempted is a subset of the observed offer ids. *)
C7_Subset == attempted \subseteq observed

C7_Witness == attempted # {} /\ attempted = observed

ConversionCalls == {"getcurrencyconverters", "sendcurrency", "z_getoperationstatus"}

ConversionSteps == {"find_route", "send", "wait_opid", "wait_swap_tx", "wait_balance"}

(* C8: when the balance read at the start covers the required amount, the  *)
(* run makes no conversion call and never waits for a conversion.          *)
C8_NoConversionWhenFunded ==
  (pc \notin {"prompt_qty", "read_balance"} /\ needed <= initial_balance) =>
     /\ rpc_calls \cap ConversionCalls = {}
     /\ pc \notin ConversionSteps
     /\ swap_request = NoRequest
     /\ ~swap_confirmed

C8_Witness ==
  /\ "takeoffer" \in rpc_calls
  /\ needed <= initial_balance
  /\ bought = qty

(* C9: no takeoffer is submitted before a balance read has returned at     *)
(* least the required amount.                                              *)
C9_BalanceBeforeTakeoffer ==
  (AboutToSubmitTakeoffer \/ "takeoffer" \in rpc_calls) => balance_ok

C9_Witness ==
  /\ "takeoffer" \in rpc_calls
  /\ "sendcurrency" \in rpc_calls
  /\ initial_balance < needed

(* the conversion's transaction id is known: returned by sendcurrency      *)
(* itself, or the result of the successful operation                       *)
ConversionTxKnown ==
  \/ swap_txid # NoTx
  \/ swap_opid # NoTx /\ ~StartsWith(swap_opid, OpidPrefix)

(* C10: balance polling starts only after a known conversion transaction   *)
(* has been seen with at least 1 confirmation, and the confirmation wait   *)
(* is skipped when the operation succeeded without a transaction id.       *)
C10_ConversionConfirmedBeforeBalance ==
  /\ (pc = "wait_balance" /\ ConversionTxKnown) => swap_confirmed
  /\ pc = "wait_swap_tx" => wait_txid # NoTx

(* C11: once the route query is sent, its exact-output amount is the       *)
(* deficit max(0, needed - balance) plus 1%, rounded to a whole number of  *)
(* 1e-8 units; for balance 0 and 2 tickets it is 2.02.                     *)
C11_BufferedDeficit ==
  "getcurrencyconverters" \in rpc_calls =>
     /\ deficit = Max(0, needed - initial_balance)
     /\ deficit > 0
     /\ 100 * (query_amount - deficit) - deficit \in -50..50
     /\ (initial_balance = 0 /\ qty = 2) => query_amount = 202000000

C11_Witness ==
  /\ "getcurrencyconverters" \in rpc_calls
  /\ initial_balance = 0
  /\ qty = 2
  /\ query_amount = 202000000

(* a candidate that names its route and carries a positive numeric quote *)
CarriesQuote(c) ==
  /\ c.fullyqualifiedname # NoVia
  /\ \E i \in 1..Len(c.sourceamounts) :
       c.sourceamounts[i].kind \in {"num", "str"} /\ c.sourceamounts[i].v > 0

(* its required source amount: the first such quote *)
QuoteOf(c) ==
  c.sourceamounts[CHOOSE i \in 1..Len(c.sourceamounts) :
      /\ c.sourceamounts[i].kind \in {"num", "str"} /\ c.sourceamounts[i].v > 0
      /\ \A j \in 1..(i - 1) :
           ~(c.sourceamounts[j].kind \in {"num", "str"} /\ c.sourceamounts[j].v > 0)].v

(* C12: for every list of candidates, get_best_exact_out_converter returns *)
(* a candidate whose required source amount is the least among those that  *)
(* carry a positive numeric quote, and fails with the no-route error when   *)
(* no candidate carries one.                                               *)
C12_GlobalMinimum ==
  [][pc = "pick_route" =>
       IF \E i \in 1..Len(res) : CarriesQuote(res[i])
       THEN /\ pc' = "confirm"
            /\ \E i \in 1..Len(res) :
                 /\ CarriesQuote(res[i])
                 /\ required_vrsc' = QuoteOf(res[i])
                 /\ via' = res[i].fullyqualifiedname
            /\ \A i \in 1..Len(res) :
                 CarriesQuote(res[i]) => required_vrsc' <= QuoteOf(res[i])
       ELSE /\ pc' = "aborted"
            /\ exit_error' = "no usable converter route"]_vars

RouteErrors == {"no converters found", "no usable converter route", "ValueError"}

(* C13: when route-finding fails the run is aborted, and it has made no    *)
(* sendcurrency and no takeoffer call.                                     *)
C13_NoRouteNoFunds ==
  exit_error \in RouteErrors =>
     /\ pc = "aborted"
     /\ "sendcurrency" \notin rpc_calls
     /\ "takeoffer" \notin rpc_calls
     /\ swap_request = NoRequest
     /\ purchased = <<>>

C13_Witness ==
  /\ pc = "aborted"
  /\ exit_error = "no usable converter route"
  /\ "getcurrencyconverters" \in rpc_calls

TransportFailed == last_rpc.outcome = "transport"

(* C14: after a remote call failed at the transport the run is aborted. *)
C14_TransportFatal == TransportFailed => pc = "aborted"

(* C14 as amended: a transport failure of a route query, a conversion      *)
(* submission, an operation-status poll or an offer refresh aborts the     *)
(* run; a failed balance lookup reads as 0.0 and a failed confirmation     *)
(* poll as 0 confirmations, and the run goes on; a failed takeoffer is     *)
(* recorded in errors and the loop goes on.                                *)
C14_TransportFatalUnlessSwallowed ==
  TransportFailed =>
     CASE last_rpc.method = "getcurrencybalance" ->
            /\ pc \in {"find_route", "wait_balance"}
            /\ exit_error = "none"
       [] last_rpc.method = "gettransaction" ->
            /\ pc \in WaitSites
            /\ confs = 0
            /\ exit_error = "none"
       [] last_rpc.method = "takeoffer" ->
            /\ pc = "loop"
            /\ exit_error = "none"
            /\ errors # <<>>
            /\ errors[Len(errors)].error = MsgConnection
            /\ errors[Len(errors)].offer_txid = found_offer.txid
       [] OTHER ->
            /\ pc = "aborted"
            /\ exit_error = "rpc error"

C14_Witness ==
  /\ last_rpc = Call("takeoffer", "transport")
  /\ bought = 1
  /\ pc = "loop"

(* C15: a conversion that returned an operation id is polled: the status   *)
(* "failed" aborts the run (no balance wait, no takeoffer), "success" ends  *)
(* the poll, any other status polls again.                                  *)
C15_OpidPolling ==
  /\ [](pc = "wait_opid" => StartsWith(swap_opid, OpidPrefix))
  /\ [](exit_error = "operation failed" =>
          /\ pc = "aborted"
          /\ "takeoffer" \notin rpc_calls
          /\ ~balance_ok)
  /\ [][(pc = "wait_opid" /\ last_rpc'.outcome = "ok") =>
          /\ status' = "failed" => (pc' = "aborted" /\ exit_error' = "operation failed")
          /\ status' = "success" => (pc' = "wait_swap_tx" /\ exit_error' = exit_error)
          /\ status' \notin {"failed", "success"} =>
               (pc' = "wait_opid" /\ exit_error' = exit_error)]_vars

C15_Witness ==
  /\ status = "failed"
  /\ pc = "aborted"
  /\ exit_error = "operation failed"

(* C16: wait_for_tx_confirmed returns exactly when a poll has observed at  *)
(* least min_confirmations, and the count it returns is that observation;  *)
(* it raises the orphaned error exactly when a poll has observed -1; after *)
(* any other observation it polls again.                                   *)
C16_WaitForTxConfirmed ==
  [][(pc \in WaitSites) =>
       (LET returned == pc' # pc /\ exit_error' = exit_error /\ errors' = errors
            raised == exit_error' = "orphaned" \/ errors' # errors
        IN /\ returned <=> confs' >= min_confirmations
           /\ raised <=> confs' = -1
           /\ raised => (pc' = "aborted" \/ errors'[Len(errors')].error = MsgOrphaned)
           /\ (~returned /\ ~raised) => pc' = pc)
    ]_vars

C16_Witness ==
  /\ confs = 2
  /\ prior_confirmed
  /\ pc = "loop"

(* C17: the result is reported exactly at the end of the run, and it is    *)
(* success iff bought = qty, partial iff 0 < bought < qty, failed iff      *)
(* bought = 0; bought is always one of the three cases.                    *)
C17_OutcomeClassification ==
  /\ outcome \in {"none", "success", "partial", "failed"}
  /\ outcome # "none" <=> pc = "done"
  /\ qty > 0 => (bought >= 0 /\ bought <= qty)
  /\ pc = "done" =>
       /\ qty > 0
       /\ outcome = "success" <=> bought = qty
       /\ outcome = "partial" <=> (0 < bought /\ bought < qty)
       /\ outcome = "failed" <=> bought = 0

C17_Witness ==
  /\ pc = "done"
  /\ outcome = "success"
  /\ errors # <<>>

(* C19: when a refresh lists no un-attempted offer while bought < qty the  *)
(* loop ends; no error is raised on the way to the report (no wait, no     *)
(* call), and the outcome is partial when bought > 0, failed when bought   *)
(* = 0.                                                                    *)
C19_ExhaustedPool ==
  /\ []((bought < qty /\ pc \in {"after_loop", "wait_final", "report", "done"}) =>
          /\ exit_error = "none"
          /\ last_txid = NoTx
          /\ pc # "wait_final"
          /\ pc = "done" => outcome = (IF bought > 0 THEN "partial" ELSE "failed"))
  /\ [][(/\ pc = "loop"
         /\ bought < qty
         /\ last_rpc'.outcome = "ok"
         /\ \A i \in 1..Len(offers') :
              offers'[i].txid = "" \/ offers'[i].txid \in attempted)
        => (pc' = "after_loop" /\ exit_error' = exit_error)]_vars

C19_Witness ==
  /\ pc = "done"
  /\ outcome = "partial"
  /\ offers = <<>>

(* C18: with a pool of 5 offers, 3 tickets requested, every takeoffer      *)
(* succeeding and every confirmation there at the first poll, the run ends *)
(* with outcome success, bought = 3, 3 distinct ticket names in purchased, *)
(* after exactly 3 takeoffer calls: the run never aborts, it can always    *)
(* take a next step until the result is reported, and the report is that.  *)
C18_FiveOffersThreeTickets ==
  /\ pc \notin {"aborted", "exited"}
  /\ exit_error = "none"
  /\ takeoffer_calls <= ScenarioQty
  /\ pc # "done" => ENABLED ScenarioNext
  /\ pc = "done" =>
       /\ outcome = "success"
       /\ bought = ScenarioQty
       /\ Len(purchased) = ScenarioQty
       /\ Cardinality({purchased[i].ticket : i \in 1..Len(purchased)}) = ScenarioQty
       /\ takeoffer_calls = ScenarioQty

C18_Witness ==
  /\ pc = "done"
  /\ qty = ScenarioQty
  /\ Len(offers) = ScenarioPoolSize
  /\ takeoffer_calls = ScenarioQty

(* C20: after every refresh the offer selected is one with an un-attempted *)
(* id whose ticket name is the least among the offers with an un-attempted  *)
(* id, and no offer is selected exactly when every offer id of the pool is  *)
(* in attempted.                                                           *)
C20_SelectsFirstByName ==
  [][(pc = "loop" /\ bought < qty /\ last_rpc'.outcome = "ok") =>
       (LET open == {i \in 1..Len(offers') :
                       offers'[i].txid # "" /\ offers'[i].txid \notin attempted}
        IN /\ pc' = "take" <=> open # {}
           /\ pc' # "take" => (pc' = "after_loop" /\ attempted' = attempted)
           /\ pc' = "take" =>
                /\ \E i \in open : found_offer' = offers'[i]
                /\ \A i \in open : found_offer'.name <= offers'[i].name
                /\ attempted' = attempted \cup {found_offer'.txid})
    ]_vars

C20_Witness ==
  /\ pc = "take"
  /\ Len(offers) = 3
  /\ found_offer = offers[3]
  /\ offers[2].txid \in attempted

OffersOf(p) == {p[i] : i \in 1..Len(p)}

(* C21: the offer selected after a refresh is the offer selected from      *)
(* every other arrival order of the same set of offers with the same       *)
(* attempted set (and no offer is selected from any of them when none is   *)
(* selected).                                                              *)
C21_SelectionDeterministic ==
  [][(pc = "loop" /\ bought < qty /\ last_rpc'.outcome = "ok") =>
       (\A p \in WidePools :
          (OffersOf(p) = OffersOf(offers') /\ Len(p) = Len(offers')) =>
            SelectNext(SortByName(extract_offers_list(p)), attempted)
              = (IF pc' = "take" THEN found_offer' ELSE NoOffer))
    ]_vars

SameIgnoringCase(a, b) ==
  /\ Len(a) = Len(b)
  /\ \A i \in 1..Len(a) : LowerChar(a[i]) = LowerChar(b[i])

(* C22: the conversion request sent carries a via tag, and then the chosen *)
(* route, exactly when the chosen route is non-empty and is not the        *)
(* destination currency vlotto in any letter case.                         *)
C22_ViaOnlyWhenIndirect ==
  swap_request # NoRequest =>
    /\ swap_request.has_via <=> (via # NoVia /\ ~SameIgnoringCase(via, Vlotto))
    /\ swap_request.via = (IF swap_request.has_via THEN via ELSE NoVia)

C22_Witness ==
  /\ swap_request # NoRequest
  /\ via = VlottoCaps
  /\ ~swap_request.has_via
  /\ "sendcurrency" \in rpc_calls

(* C23: whenever get_best_exact_out_converter returns, the route returned  *)
(* is that of the first candidate of the node's list, among those carrying *)
(* a positive numeric quote, whose required amount is the amount returned  *)
(* (the least one): of several candidates quoting the least amount the     *)
(* first wins.                                                             *)
C23_FirstSeenWinsTies ==
  [][(pc = "pick_route" /\ pc' = "confirm") =>
       (\E i \in 1..Len(res) :
          /\ CarriesQuote(res[i])
          /\ QuoteOf(res[i]) = required_vrsc'
          /\ via' = res[i].fullyqualifiedname
          /\ \A j \in 1..Len(res) :
               CarriesQuote(res[j]) =>
                 \/ QuoteOf(res[j]) > required_vrsc'
                 \/ j >= i)
    ]_vars

(* two candidates with different names quote the same least amount, and    *)
(* the function is about to return                                         *)
C23_Witness ==
  /\ pc = "pick_route"
  /\ Len(res) = MaxConverters
  /\ \E i, j \in 1..Len(res) :
       /\ i < j
       /\ CarriesQuote(res[i]) /\ CarriesQuote(res[j])
       /\ QuoteOf(res[i]) = QuoteOf(res[j])
       /\ res[i].fullyqualifiedname # res[j].fullyqualifiedname
       /\ \A k \in 1..Len(res) :
            /\ ~RaisesValueError(res[k])
            /\ CarriesQuote(res[k]) => QuoteOf(res[k]) >= QuoteOf(res[i])

(* C24: in every state bought is the length of purchased, 0 <= bought <=   *)
(* qty, and every offer id in purchased is in attempted; so at most qty    *)
(* takeoffer calls succeed in a run.                                       *)
C24_LoopCounters ==
  /\ bought = Len(purchased)
  /\ 0 <= bought /\ bought <= qty
  /\ PurchasedIds \subseteq attempted
  /\ Len(purchased) <= qty

C24_Witness ==
  /\ pc = "loop"
  /\ bought = qty
  /\ Len(purchased) > 1
  /\ PurchasedIds = attempted

(* C25: no offer id is recorded both in purchased and in errors. *)
C25_PurchasedNeverErrored == PurchasedIds \cap ErroredIds = {}

FundsMovingCalls == {"sendcurrency", "takeoffer"}

ReadOnlyCalls == {"getcurrencybalance", "getcurrencyconverters"}

BeforeConfirmation == {"prompt_qty", "read_balance", "find_route", "pick_route", "confirm"}

(* C26: a sendcurrency or takeoffer call has been made only in a run that  *)
(* passed the purchase confirmation with the answer y; a run cancelled at  *)
(* the confirmation has ended and has made only read-only remote calls.    *)
C26_NoFundsWithoutConsent ==
  /\ rpc_calls \cap FundsMovingCalls # {} =>
       /\ pc \notin BeforeConfirmation
       /\ exit_error # "cancelled by user"
  /\ exit_error = "cancelled by user" =>
       /\ pc = "exited"
       /\ rpc_calls \subseteq ReadOnlyCalls
       /\ swap_request = NoRequest /\ purchased = <<>>

C26_Witness ==
  /\ exit_error = "cancelled by user"
  /\ pc = "exited"
  /\ "getcurrencyconverters" \in rpc_calls
  /\ required_vrsc > 0
====
